---- MODULE Spec2Model ----
(***************************************************************************)
(* Model of the key-range load balancer of src/slicer.ts                   *)
(* (slicerLoadBalancer and its helpers) together with the caller loop of   *)
(* src/slicer.test.ts (runSingleSimulation) that applies the returned      *)
(* plans and invokes the balancer again.                                   *)
(*                                                                         *)
(* Numbers.  The source computes with IEEE doubles; the model computes     *)
(* with exact integers.  Weights are held in tenths (0.5 is 5), so a score *)
(* of the model is ten times the score of the source, and the threshold    *)
(* test  d > 0.1 * m  is the exact comparison  10 * d > m .  Range metrics *)
(* are enumerated as even numbers so that the halving of splitKeyRange is  *)
(* exact.  Strings used as keys are sequences of character codes.          *)
(***************************************************************************)
EXTENDS Integers, Sequences, FiniteSets, TLC

VARIABLES servers, weights, plans, pc, before

vars == <<servers, weights, plans, pc, before>>

(***************************************************************************)
(* Bounds of the enumerated inputs.                                        *)
(***************************************************************************)
MaxServers == 3
MaxRanges == 2

(***************************************************************************)
(* Generic helpers standing for JavaScript built-ins.                      *)
(***************************************************************************)
\* String comparison (<=) of JavaScript: lexicographic by code unit, a proper
\* prefix is smaller.
RECURSIVE KeyLeq(_, _)
KeyLeq(a, b) ==
  IF a = <<>> THEN TRUE
  ELSE IF b = <<>> THEN FALSE
  ELSE IF Head(a) < Head(b) THEN TRUE
  ELSE IF Head(a) > Head(b) THEN FALSE
  ELSE KeyLeq(Tail(a), Tail(b))

\* The value of reading a missing range (undefined).
NoRange == [undefined |-> TRUE]

\* null for mostLoadedServer / leastLoadedServer.
NoServer == [null |-> TRUE]

(***************************************************************************)
(* Load Scorer.                                                            *)
(***************************************************************************)
\* Variant: the penalty weight is added into the score.
calculateCombinedLoad_WithPenalty(server, w) ==
  server.total_request_processing_load * w.cpuWeight
  + server.total_storage_utilization * w.storageWeight
  + server.total_data_access_frequency * w.accessFrequencyWeight
  + server.total_memory_usage * w.memoryWeight
  + w.migrationPenalty

calculateCombinedLoad(server, w) ==
  server.total_request_processing_load * w.cpuWeight
  + server.total_storage_utilization * w.storageWeight
  + server.total_data_access_frequency * w.accessFrequencyWeight
  + server.total_memory_usage * w.memoryWeight

calculateKeyRangeLoad(keyRange, w) ==
  keyRange.request_processing_load * w.cpuWeight
  + keyRange.storage_utilization * w.storageWeight
  + keyRange.data_access_frequency * w.accessFrequencyWeight
  + keyRange.memory_usage * w.memoryWeight

(***************************************************************************)
(* Imbalance Detector: the scan of lines 258-273.                          *)
(***************************************************************************)
\* Variant: a later server with an equal score replaces the current best.
RECURSIVE ScanMost_LastWins(_, _, _, _)
ScanMost_LastWins(list, i, best, w) ==
  IF i > Len(list) THEN best
  ELSE ScanMost_LastWins(list, i + 1,
         IF best = NoServer
            \/ calculateCombinedLoad(list[i], w) >= calculateCombinedLoad(best, w)
         THEN list[i] ELSE best, w)

RECURSIVE ScanMost(_, _, _, _)
ScanMost(list, i, best, w) ==
  IF i > Len(list) THEN best
  ELSE ScanMost(list, i + 1,
         IF best = NoServer
            \/ calculateCombinedLoad(list[i], w) > calculateCombinedLoad(best, w)
         THEN list[i] ELSE best, w)

RECURSIVE ScanLeast(_, _, _, _)
ScanLeast(list, i, best, w) ==
  IF i > Len(list) THEN best
  ELSE ScanLeast(list, i + 1,
         IF best = NoServer
            \/ calculateCombinedLoad(list[i], w) < calculateCombinedLoad(best, w)
         THEN list[i] ELSE best, w)

mostLoadedServer(list, w) == ScanMost(list, 1, NoServer, w)
leastLoadedServer(list, w) == ScanLeast(list, 1, NoServer, w)

\* Variant: the threshold test accepts equality (>= for >).
Imbalanced_NotStrict(list, w) ==
  /\ mostLoadedServer(list, w) # NoServer
  /\ leastLoadedServer(list, w) # NoServer
  /\ LET m == calculateCombinedLoad(mostLoadedServer(list, w), w)
         l == calculateCombinedLoad(leastLoadedServer(list, w), w)
     IN 10 * (m - l) >= m

\* Variant: the threshold is taken from the least-loaded server's score.
Imbalanced_OfLeast(list, w) ==
  /\ mostLoadedServer(list, w) # NoServer
  /\ leastLoadedServer(list, w) # NoServer
  /\ LET m == calculateCombinedLoad(mostLoadedServer(list, w), w)
         l == calculateCombinedLoad(leastLoadedServer(list, w), w)
     IN 10 * (m - l) > l

\* The two nested conditions of lines 276-283.
Imbalanced(list, w) ==
  /\ mostLoadedServer(list, w) # NoServer
  /\ leastLoadedServer(list, w) # NoServer
  /\ LET m == calculateCombinedLoad(mostLoadedServer(list, w), w)
         l == calculateCombinedLoad(leastLoadedServer(list, w), w)
     IN 10 * (m - l) > m

(***************************************************************************)
(* Hot Range Selector: the reduce of lines 285-292.                        *)
(***************************************************************************)
\* Variant: a later range with an equal score replaces the current choice.
RECURSIVE ReduceRanges_LastWins(_, _, _, _)
ReduceRanges_LastWins(ranges, i, prev, w) ==
  IF i > Len(ranges) THEN prev
  ELSE ReduceRanges_LastWins(ranges, i + 1,
         IF calculateKeyRangeLoad(ranges[i], w) >= calculateKeyRangeLoad(prev, w)
         THEN ranges[i] ELSE prev, w)

RECURSIVE ReduceRanges(_, _, _, _)
ReduceRanges(ranges, i, prev, w) ==
  IF i > Len(ranges) THEN prev
  ELSE ReduceRanges(ranges, i + 1,
         IF calculateKeyRangeLoad(ranges[i], w) > calculateKeyRangeLoad(prev, w)
         THEN ranges[i] ELSE prev, w)

keyRangeToMove(server, w) ==
  IF Len(server.key_ranges) = 0 THEN NoRange
  ELSE ReduceRanges(server.key_ranges, 1, server.key_ranges[1], w)

(***************************************************************************)
(* Split/Move Policy.                                                      *)
(***************************************************************************)
\* Variant: a projection equal to the capacity already splits (>= for >).
shouldSplitKeyRange_NotStrict(keyRange, server) ==
  LET projectedCpuUsage ==
        server.total_request_processing_load + keyRange.request_processing_load
      projectedMemoryUsage == server.total_memory_usage + keyRange.memory_usage
  IN \/ projectedCpuUsage >= server.max_cpu_capacity
     \/ projectedMemoryUsage >= server.max_memory_capacity

shouldSplitKeyRange(keyRange, server) ==
  LET projectedCpuUsage ==
        server.total_request_processing_load + keyRange.request_processing_load
      projectedMemoryUsage == server.total_memory_usage + keyRange.memory_usage
  IN \/ projectedCpuUsage > server.max_cpu_capacity
     \/ projectedMemoryUsage > server.max_memory_capacity

\* Variant: a projection equal to the capacity does not fit (< for <=).
canMoveKeyRange_Strict(keyRange, server) ==
  LET projectedCpuUsage ==
        server.total_request_processing_load + keyRange.request_processing_load
      projectedMemoryUsage == server.total_memory_usage + keyRange.memory_usage
  IN /\ projectedCpuUsage < server.max_cpu_capacity
     /\ projectedMemoryUsage < server.max_memory_capacity

canMoveKeyRange(keyRange, server) ==
  LET projectedCpuUsage ==
        server.total_request_processing_load + keyRange.request_processing_load
      projectedMemoryUsage == server.total_memory_usage + keyRange.memory_usage
  IN /\ projectedCpuUsage <= server.max_cpu_capacity
     /\ projectedMemoryUsage <= server.max_memory_capacity

(***************************************************************************)
(* Range Splitter / Plan Emitter.                                          *)
(***************************************************************************)
\* charCodeAt(0) of both keys, Math.floor of the mean, String.fromCharCode.
calculateMidKey(startKey, endKey) ==
  LET startChar == Head(startKey)
      endChar == Head(endKey)
  IN <<(startChar + endChar) \div 2>>

\* Array.prototype.sort with the comparator load(a) - load(b): a stable
\* ascending sort, done in place on the caller's array (InsertByLoad,
\* SortPrefix, sortedServers).
\* Variant: an element is placed before the elements of equal load, which
\* reverses ties (an unstable sort).
RECURSIVE InsertByLoad_TiesFirst(_, _, _)
InsertByLoad_TiesFirst(sorted, s, w) ==
  IF sorted = <<>> THEN <<s>>
  ELSE IF calculateCombinedLoad(s, w) <= calculateCombinedLoad(sorted[Len(sorted)], w)
  THEN Append(InsertByLoad_TiesFirst(SubSeq(sorted, 1, Len(sorted) - 1), s, w),
              sorted[Len(sorted)])
  ELSE Append(sorted, s)

RECURSIVE InsertByLoad(_, _, _)
InsertByLoad(sorted, s, w) ==
  IF sorted = <<>> THEN <<s>>
  ELSE IF calculateCombinedLoad(s, w) < calculateCombinedLoad(sorted[Len(sorted)], w)
  THEN Append(InsertByLoad(SubSeq(sorted, 1, Len(sorted) - 1), s, w),
              sorted[Len(sorted)])
  ELSE Append(sorted, s)

RECURSIVE SortPrefix(_, _, _)
SortPrefix(list, n, w) ==
  IF n = 0 THEN <<>>
  ELSE InsertByLoad(SortPrefix(list, n - 1, w), list[n], w)

sortedServers(availableServers, w) ==
  SortPrefix(availableServers, Len(availableServers), w)

\* Variant: both halves go to the first server of the sorted list.
splitKeyRange_BothToFirst(keyRange, availableServers, w) ==
  LET midKey == calculateMidKey(keyRange.start_key, keyRange.end_key)
      sorted == sortedServers(availableServers, w)
      range1 == [start_key |-> keyRange.start_key,
                 end_key |-> midKey,
                 request_processing_load |-> keyRange.request_processing_load \div 2,
                 storage_utilization |-> keyRange.storage_utilization \div 2,
                 data_access_frequency |-> keyRange.data_access_frequency \div 2,
                 memory_usage |-> keyRange.memory_usage \div 2,
                 destination_instance |-> sorted[1].instance_id]
      range2 == [start_key |-> midKey,
                 end_key |-> keyRange.end_key,
                 request_processing_load |-> keyRange.request_processing_load \div 2,
                 storage_utilization |-> keyRange.storage_utilization \div 2,
                 data_access_frequency |-> keyRange.data_access_frequency \div 2,
                 memory_usage |-> keyRange.memory_usage \div 2,
                 destination_instance |-> sorted[1].instance_id]
  IN <<range1, range2>>

\* The pair [range1, range2] of lines 368-389.
splitKeyRange(keyRange, availableServers, w) ==
  LET midKey == calculateMidKey(keyRange.start_key, keyRange.end_key)
      sorted == sortedServers(availableServers, w)
      range1 == [start_key |-> keyRange.start_key,
                 end_key |-> midKey,
                 request_processing_load |-> keyRange.request_processing_load \div 2,
                 storage_utilization |-> keyRange.storage_utilization \div 2,
                 data_access_frequency |-> keyRange.data_access_frequency \div 2,
                 memory_usage |-> keyRange.memory_usage \div 2,
                 destination_instance |-> sorted[1].instance_id]
      range2 == [start_key |-> midKey,
                 end_key |-> keyRange.end_key,
                 request_processing_load |-> keyRange.request_processing_load \div 2,
                 storage_utilization |-> keyRange.storage_utilization \div 2,
                 data_access_frequency |-> keyRange.data_access_frequency \div 2,
                 memory_usage |-> keyRange.memory_usage \div 2,
                 destination_instance |->
                   IF Len(sorted) >= 2 /\ sorted[2].instance_id # ""
                   THEN sorted[2].instance_id
                   ELSE sorted[1].instance_id]
  IN <<range1, range2>>

\* Variant: source and destination written to each other's field.
createMigrationPlan_Swapped(keyRange, source, destination) ==
  [start_key |-> keyRange.start_key,
   end_key |-> keyRange.end_key,
   source_instance |-> destination,
   destination_instance |-> source]

createMigrationPlan(keyRange, source, destination) ==
  [start_key |-> keyRange.start_key,
   end_key |-> keyRange.end_key,
   source_instance |-> source,
   destination_instance |-> destination]

\* Variant of slicerLoadBalancer: the split and move tests are given the
\* most-loaded server where the least-loaded one belongs.
slicerLoadBalancer_ChecksSource(list, w) ==
  LET most == mostLoadedServer(list, w)
      least == leastLoadedServer(list, w)
  IN IF ~Imbalanced(list, w)
     THEN [outcome |-> "returned", migrationPlans |-> <<>>, servers |-> list]
     ELSE LET keyRange == keyRangeToMove(most, w)
          IN IF keyRange = NoRange
             THEN [outcome |-> "threw", migrationPlans |-> <<>>, servers |-> list]
             ELSE IF shouldSplitKeyRange(keyRange, most)
             THEN LET pair == splitKeyRange(keyRange, list, w)
                  IN [outcome |-> "returned",
                      migrationPlans |->
                        <<createMigrationPlan(pair[1], most.instance_id,
                                              pair[1].destination_instance),
                          createMigrationPlan(pair[2], most.instance_id,
                                              pair[2].destination_instance)>>,
                      servers |-> sortedServers(list, w)]
             ELSE IF canMoveKeyRange(keyRange, most)
             THEN [outcome |-> "returned",
                   migrationPlans |->
                     <<createMigrationPlan(keyRange, most.instance_id,
                                           least.instance_id)>>,
                   servers |-> list]
             ELSE [outcome |-> "returned", migrationPlans |-> <<>>, servers |-> list]

\* Variant of slicerLoadBalancer: an undefined hot range is read leniently
\* (as with keyRange?.field), so neither test holds and nothing is emitted.
slicerLoadBalancer_LenientUndefined(list, w) ==
  LET most == mostLoadedServer(list, w)
      least == leastLoadedServer(list, w)
  IN IF ~Imbalanced(list, w)
     THEN [outcome |-> "returned", migrationPlans |-> <<>>, servers |-> list]
     ELSE LET keyRange == keyRangeToMove(most, w)
          IN IF keyRange = NoRange
             THEN [outcome |-> "returned", migrationPlans |-> <<>>, servers |-> list]
             ELSE IF shouldSplitKeyRange(keyRange, least)
             THEN LET pair == splitKeyRange(keyRange, list, w)
                  IN [outcome |-> "returned",
                      migrationPlans |->
                        <<createMigrationPlan(pair[1], most.instance_id,
                                              pair[1].destination_instance),
                          createMigrationPlan(pair[2], most.instance_id,
                                              pair[2].destination_instance)>>,
                      servers |-> sortedServers(list, w)]
             ELSE IF canMoveKeyRange(keyRange, least)
             THEN [outcome |-> "returned",
                   migrationPlans |->
                     <<createMigrationPlan(keyRange, most.instance_id,
                                           least.instance_id)>>,
                   servers |-> list]
             ELSE [outcome |-> "returned", migrationPlans |-> <<>>, servers |-> list]

(***************************************************************************)
(* slicerLoadBalancer(servers, weights), lines 248-328.  The result names  *)
(* the outcome ("returned", or "threw" for the TypeError raised when a     *)
(* field of an undefined range is read at line 336), the returned plans    *)
(* and the caller's array as the call leaves it.                           *)
(***************************************************************************)
slicerLoadBalancer(list, w) ==
  LET most == mostLoadedServer(list, w)
      least == leastLoadedServer(list, w)
  IN IF ~Imbalanced(list, w)
     THEN [outcome |-> "returned", migrationPlans |-> <<>>, servers |-> list]
     ELSE LET keyRange == keyRangeToMove(most, w)
          IN IF keyRange = NoRange
             THEN [outcome |-> "threw", migrationPlans |-> <<>>, servers |-> list]
             ELSE IF shouldSplitKeyRange(keyRange, least)
             THEN LET pair == splitKeyRange(keyRange, list, w)
                  IN [outcome |-> "returned",
                      migrationPlans |->
                        <<createMigrationPlan(pair[1], most.instance_id,
                                              pair[1].destination_instance),
                          createMigrationPlan(pair[2], most.instance_id,
                                              pair[2].destination_instance)>>,
                      servers |-> sortedServers(list, w)]
             ELSE IF canMoveKeyRange(keyRange, least)
             THEN [outcome |-> "returned",
                   migrationPlans |->
                     <<createMigrationPlan(keyRange, most.instance_id,
                                           least.instance_id)>>,
                   servers |-> list]
             ELSE [outcome |-> "returned", migrationPlans |-> <<>>, servers |-> list]

(***************************************************************************)
(* The fixed-weight variant, lines 28-203: slicerLoadBalancer(servers)     *)
(* with its own scorers (coefficients 1, 0.5, 0.2, 0.3, here in tenths).   *)
(* Its shouldSplitKeyRange, canMoveKeyRange, createMigrationPlan and       *)
(* calculateMidKey (lines 118-144, 184-203) are the same text as the       *)
(* parameterized ones and are modelled by the same operators.              *)
(***************************************************************************)
\* Variant: the scorer without the memory term.
calculateCombinedLoadFixed_NoMemory(server) ==
  server.total_request_processing_load * 10
  + server.total_storage_utilization * 5
  + server.total_data_access_frequency * 2

calculateCombinedLoadFixed(server) ==
  server.total_request_processing_load * 10
  + server.total_storage_utilization * 5
  + server.total_data_access_frequency * 2
  + server.total_memory_usage * 3

calculateKeyRangeLoadFixed(keyRange) ==
  keyRange.request_processing_load * 10
  + keyRange.storage_utilization * 5
  + keyRange.data_access_frequency * 2
  + keyRange.memory_usage * 3

RECURSIVE ScanMostFixed(_, _, _)
ScanMostFixed(list, i, best) ==
  IF i > Len(list) THEN best
  ELSE ScanMostFixed(list, i + 1,
         IF best = NoServer
            \/ calculateCombinedLoadFixed(list[i]) > calculateCombinedLoadFixed(best)
         THEN list[i] ELSE best)

RECURSIVE ScanLeastFixed(_, _, _)
ScanLeastFixed(list, i, best) ==
  IF i > Len(list) THEN best
  ELSE ScanLeastFixed(list, i + 1,
         IF best = NoServer
            \/ calculateCombinedLoadFixed(list[i]) < calculateCombinedLoadFixed(best)
         THEN list[i] ELSE best)

mostLoadedServerFixed(list) == ScanMostFixed(list, 1, NoServer)
leastLoadedServerFixed(list) == ScanLeastFixed(list, 1, NoServer)

\* The two nested conditions of lines 52-56.
ImbalancedFixed(list) ==
  /\ mostLoadedServerFixed(list) # NoServer
  /\ leastLoadedServerFixed(list) # NoServer
  /\ LET m == calculateCombinedLoadFixed(mostLoadedServerFixed(list))
         l == calculateCombinedLoadFixed(leastLoadedServerFixed(list))
     IN 10 * (m - l) > m

RECURSIVE ReduceRangesFixed(_, _, _)
ReduceRangesFixed(ranges, i, prev) ==
  IF i > Len(ranges) THEN prev
  ELSE ReduceRangesFixed(ranges, i + 1,
         IF calculateKeyRangeLoadFixed(ranges[i]) > calculateKeyRangeLoadFixed(prev)
         THEN ranges[i] ELSE prev)

keyRangeToMoveFixed(server) ==
  IF Len(server.key_ranges) = 0 THEN NoRange
  ELSE ReduceRangesFixed(server.key_ranges, 1, server.key_ranges[1])

RECURSIVE InsertByLoadFixed(_, _)
InsertByLoadFixed(sorted, s) ==
  IF sorted = <<>> THEN <<s>>
  ELSE IF calculateCombinedLoadFixed(s) < calculateCombinedLoadFixed(sorted[Len(sorted)])
  THEN Append(InsertByLoadFixed(SubSeq(sorted, 1, Len(sorted) - 1), s),
              sorted[Len(sorted)])
  ELSE Append(sorted, s)

RECURSIVE SortPrefixFixed(_, _)
SortPrefixFixed(list, n) ==
  IF n = 0 THEN <<>>
  ELSE InsertByLoadFixed(SortPrefixFixed(list, n - 1), list[n])

sortedServersFixed(availableServers) ==
  SortPrefixFixed(availableServers, Len(availableServers))

\* The pair [range1, range2] of lines 159-180.
splitKeyRangeFixed(keyRange, availableServers) ==
  LET midKey == calculateMidKey(keyRange.start_key, keyRange.end_key)
      sorted == sortedServersFixed(availableServers)
      range1 == [start_key |-> keyRange.start_key,
                 end_key |-> midKey,
                 request_processing_load |-> keyRange.request_processing_load \div 2,
                 storage_utilization |-> keyRange.storage_utilization \div 2,
                 data_access_frequency |-> keyRange.data_access_frequency \div 2,
                 memory_usage |-> keyRange.memory_usage \div 2,
                 destination_instance |-> sorted[1].instance_id]
      range2 == [start_key |-> midKey,
                 end_key |-> keyRange.end_key,
                 request_processing_load |-> keyRange.request_processing_load \div 2,
                 storage_utilization |-> keyRange.storage_utilization \div 2,
                 data_access_frequency |-> keyRange.data_access_frequency \div 2,
                 memory_usage |-> keyRange.memory_usage \div 2,
                 destination_instance |->
                   IF Len(sorted) >= 2 /\ sorted[2].instance_id # ""
                   THEN sorted[2].instance_id
                   ELSE sorted[1].instance_id]
  IN <<range1, range2>>

slicerLoadBalancerFixed(list) ==
  LET most == mostLoadedServerFixed(list)
      least == leastLoadedServerFixed(list)
  IN IF ~ImbalancedFixed(list)
     THEN [outcome |-> "returned", migrationPlans |-> <<>>, servers |-> list]
     ELSE LET keyRange == keyRangeToMoveFixed(most)
          IN IF keyRange = NoRange
             THEN [outcome |-> "threw", migrationPlans |-> <<>>, servers |-> list]
             ELSE IF shouldSplitKeyRange(keyRange, least)
             THEN LET pair == splitKeyRangeFixed(keyRange, list)
                  IN [outcome |-> "returned",
                      migrationPlans |->
                        <<createMigrationPlan(pair[1], most.instance_id,
                                              pair[1].destination_instance),
                          createMigrationPlan(pair[2], most.instance_id,
                                              pair[2].destination_instance)>>,
                      servers |-> sortedServersFixed(list)]
             ELSE IF canMoveKeyRange(keyRange, least)
             THEN [outcome |-> "returned",
                   migrationPlans |->
                     <<createMigrationPlan(keyRange, most.instance_id,
                                           least.instance_id)>>,
                   servers |-> list]
             ELSE [outcome |-> "returned", migrationPlans |-> <<>>, servers |-> list]

(***************************************************************************)
(* The caller loop of runSingleSimulation: one plan applied to the fleet   *)
(* (the body of newMigrations.forEach), and all plans in order.            *)
(***************************************************************************)
\* Array.prototype.find over the fleet: index of the first server with this
\* instance_id, 0 when there is none.
RECURSIVE FindServer(_, _, _)
FindServer(list, id, i) ==
  IF i > Len(list) THEN 0
  ELSE IF list[i].instance_id = id THEN i
  ELSE FindServer(list, id, i + 1)

\* Array.prototype.find over key_ranges: the first range with these keys.
RECURSIVE FindRange(_, _, _, _)
FindRange(ranges, startKey, endKey, i) ==
  IF i > Len(ranges) THEN NoRange
  ELSE IF ranges[i].start_key = startKey /\ ranges[i].end_key = endKey
  THEN ranges[i]
  ELSE FindRange(ranges, startKey, endKey, i + 1)

\* key_ranges.filter(range => range.start_key !== k.start_key ||
\*                            range.end_key !== k.end_key)
RECURSIVE FilterOut(_, _)
FilterOut(ranges, k) ==
  IF ranges = <<>> THEN <<>>
  ELSE IF Head(ranges).start_key # k.start_key \/ Head(ranges).end_key # k.end_key
  THEN <<Head(ranges)>> \o FilterOut(Tail(ranges), k)
  ELSE FilterOut(Tail(ranges), k)

AddTotals(server, k) ==
  [server EXCEPT
     !.total_storage_utilization = @ + k.storage_utilization,
     !.total_request_processing_load = @ + k.request_processing_load,
     !.total_data_access_frequency = @ + k.data_access_frequency,
     !.total_memory_usage = @ + k.memory_usage]

SubTotals(server, k) ==
  [server EXCEPT
     !.total_storage_utilization = @ - k.storage_utilization,
     !.total_request_processing_load = @ - k.request_processing_load,
     !.total_data_access_frequency = @ - k.data_access_frequency,
     !.total_memory_usage = @ - k.memory_usage]

applyPlan(list, plan) ==
  LET si == FindServer(list, plan.source_instance, 1)
      di == FindServer(list, plan.destination_instance, 1)
      keyRange == IF si = 0 THEN NoRange
                  ELSE FindRange(list[si].key_ranges, plan.start_key, plan.end_key, 1)
  IN IF si = 0 \/ di = 0 \/ keyRange = NoRange THEN list
     ELSE LET l1 == [list EXCEPT ![si].key_ranges = FilterOut(@, keyRange)]
              l2 == [l1 EXCEPT ![di].key_ranges = Append(@, keyRange)]
              l3 == [l2 EXCEPT ![di] = AddTotals(@, keyRange)]
          IN [l3 EXCEPT ![si] = SubTotals(@, keyRange)]

RECURSIVE applyPlans(_, _)
applyPlans(list, ps) ==
  IF ps = <<>> THEN list
  ELSE applyPlans(applyPlan(list, Head(ps)), Tail(ps))

(***************************************************************************)
(* Enumerated inputs.                                                      *)
(***************************************************************************)
\* Weights in tenths: the exported default of slicer.ts (0.5, 0.5, 0.3, 0.1,
\* penalty 1) and the coefficients of the fixed-weight scorer (1, 0.3, 0.5,
\* 0.2) with the initial penalty of runSimulation (5).
DefaultWeights ==
  [cpuWeight |-> 5, memoryWeight |-> 5, storageWeight |-> 3,
   accessFrequencyWeight |-> 1, migrationPenalty |-> 10]

FixedWeights ==
  [cpuWeight |-> 10, memoryWeight |-> 3, storageWeight |-> 5,
   accessFrequencyWeight |-> 2, migrationPenalty |-> 50]

WeightChoices == {DefaultWeights, FixedWeights}

\* Metric vectors of a key range (even, so that halves are whole).
Load(cpu, mem, sto, freq) ==
  [request_processing_load |-> cpu, memory_usage |-> mem,
   storage_utilization |-> sto, data_access_frequency |-> freq]

RangeLoads == {Load(4, 0, 0, 0), Load(0, 4, 2, 0), Load(2, 0, 2, 2)}

\* Totals reported by a server that lists no range: none, or a stale load.
EmptyTotals == {Load(0, 0, 0, 0), Load(6, 2, 0, 0)}

Capacities ==
  {[max_cpu_capacity |-> 4, max_memory_capacity |-> 4],
   [max_cpu_capacity |-> 8, max_memory_capacity |-> 2]}

InstanceId(i) == "server-" \o ToString(i)

\* Keys of the j-th range of the i-th server: disjoint intervals in three
\* shapes, "x0".."x9" (as the fixtures' a000..a999), "x".."z" and "x1".."{".
Slot(i, j) == (i - 1) * MaxRanges + j

StartKey(i, j) ==
  LET q == Slot(i, j) IN
  IF q % 3 = 1 THEN <<4 * q, 0>>
  ELSE IF q % 3 = 2 THEN <<4 * q>>
  ELSE <<4 * q, 1>>

EndKey(i, j) ==
  LET q == Slot(i, j) IN
  IF q % 3 = 1 THEN <<4 * q, 9>>
  ELSE IF q % 3 = 2 THEN <<4 * q + 2>>
  ELSE <<4 * q + 3>>

KeyRangeOf(i, j, load) ==
  [start_key |-> StartKey(i, j),
   end_key |-> EndKey(i, j),
   data_access_frequency |-> load.data_access_frequency,
   storage_utilization |-> load.storage_utilization,
   request_processing_load |-> load.request_processing_load,
   memory_usage |-> load.memory_usage]

RECURSIVE SumLoads(_)
SumLoads(ranges) ==
  IF ranges = <<>> THEN Load(0, 0, 0, 0)
  ELSE LET r == Head(ranges)
           t == SumLoads(Tail(ranges))
       IN Load(r.request_processing_load + t.request_processing_load,
               r.memory_usage + t.memory_usage,
               r.storage_utilization + t.storage_utilization,
               r.data_access_frequency + t.data_access_frequency)

ServerReport(i, ranges, totals, cap) ==
  [instance_id |-> InstanceId(i),
   total_storage_utilization |-> totals.storage_utilization,
   total_request_processing_load |-> totals.request_processing_load,
   total_data_access_frequency |-> totals.data_access_frequency,
   total_memory_usage |-> totals.memory_usage,
   max_cpu_capacity |-> cap.max_cpu_capacity,
   max_memory_capacity |-> cap.max_memory_capacity,
   key_ranges |-> ranges]

\* The key_ranges lists of the i-th server: up to MaxRanges ranges.
RECURSIVE RangeLists(_, _)
RangeLists(i, n) ==
  IF n = 0 THEN {<<>>}
  ELSE {Append(rs, KeyRangeOf(i, n, load)) :
          rs \in RangeLists(i, n - 1), load \in RangeLoads}

ServerReports(i) ==
  {ServerReport(i, <<>>, t, cap) : t \in EmptyTotals, cap \in Capacities}
  \cup
  UNION {{ServerReport(i, rs, SumLoads(rs), cap) :
            rs \in RangeLists(i, n), cap \in Capacities} : n \in 1..MaxRanges}

RECURSIVE Fleets(_)
Fleets(n) ==
  IF n = 0 THEN {<<>>}
  ELSE {Append(f, s) : f \in Fleets(n - 1), s \in ServerReports(n)}

(***************************************************************************)
(* State machine.                                                          *)
(*   servers  the caller's array of reports                                *)
(*   weights  the Weights passed to every call                             *)
(*   plans    the plan list returned by the last call                      *)
(*   pc       "idle": the caller is about to call; "returned": it holds    *)
(*            the plans of a call; "threw": the call raised a TypeError    *)
(*   before   the array as it was when the last call was entered           *)
(***************************************************************************)
Init ==
  /\ servers \in UNION {Fleets(n) : n \in 0..MaxServers}
  /\ weights \in WeightChoices
  /\ plans = <<>>
  /\ pc = "idle"
  /\ before = servers

\* const newMigrations = slicerLoadBalancer(servers, weights), returning.
Call ==
  /\ pc = "idle"
  /\ LET r == slicerLoadBalancer(servers, weights)
     IN /\ r.outcome = "returned"
        /\ plans' = r.migrationPlans
        /\ servers' = r.servers
  /\ before' = servers
  /\ pc' = "returned"
  /\ UNCHANGED weights

\* The same call when it raises: nothing is returned, the loop ends.
CallThrows ==
  /\ pc = "idle"
  /\ slicerLoadBalancer(servers, weights).outcome = "threw"
  /\ before' = servers
  /\ pc' = "threw"
  /\ UNCHANGED <<servers, weights, plans>>

\* newMigrations.forEach(...) of runSingleSimulation.  The loop's load
\* simulation (simulateServerLoad) is left out: range metrics stay as given.
ApplyPlans ==
  /\ pc = "returned"
  /\ servers' = applyPlans(servers, plans)
  /\ pc' = "idle"
  /\ UNCHANGED <<weights, plans, before>>

Next == Call \/ CallThrows \/ ApplyPlans

Spec == Init /\ [][Next]_vars

(***************************************************************************)
(* The caller loop on consistent fleets: every server's totals are the     *)
(* sums of its ranges and the capacities are those of runSingleSimulation's*)
(* first server, far above any total, so that every move fits.  The loop   *)
(* is run without an iteration limit, on fleets of up to LoopServers        *)
(* servers (runSingleSimulation has two).                                  *)
(***************************************************************************)
LoopServers == 2

LoopCapacity == [max_cpu_capacity |-> 5000, max_memory_capacity |-> 3000]

LoopServerReports(i) ==
  UNION {{ServerReport(i, rs, SumLoads(rs), LoopCapacity) :
            rs \in RangeLists(i, n)} : n \in 0..MaxRanges}

RECURSIVE LoopFleets(_)
LoopFleets(n) ==
  IF n = 0 THEN {<<>>}
  ELSE {Append(f, s) : f \in LoopFleets(n - 1), s \in LoopServerReports(n)}

LoopInit ==
  /\ servers \in UNION {LoopFleets(n) : n \in 1..LoopServers}
  /\ weights \in WeightChoices
  /\ plans = <<>>
  /\ pc = "idle"
  /\ before = servers

\* On these fleets the call never raises (LoopNeverThrows below), so the
\* loop consists of the returning call and the application of its plans.
LoopNext == Call \/ ApplyPlans

LoopSpec == LoopInit /\ [][LoopNext]_vars /\ WF_vars(LoopNext)

(***************************************************************************)
(* Vocabulary of the properties.  After a call (pc is "returned" or        *)
(* "threw") `before` is the fleet the call was given.                      *)
(***************************************************************************)
Score(server) == calculateCombinedLoad(server, weights)

Most == mostLoadedServer(before, weights)
Least == leastLoadedServer(before, weights)
Hot == keyRangeToMove(Most, weights)

\* score(most) - score(least) > 0.1 * score(most), written out.
ThresholdPassed == before # <<>> /\ 10 * (Score(Most) - Score(Least)) > Score(Most)

ProjectedCpu == Least.total_request_processing_load + Hot.request_processing_load
ProjectedMemory == Least.total_memory_usage + Hot.memory_usage

ExceedsLeast ==
  \/ ProjectedCpu > Least.max_cpu_capacity
  \/ ProjectedMemory > Least.max_memory_capacity

\* floor((code of first char of start_key + code of first char of end_key) / 2)
\* as a one-character string.
MidOfHot == <<(Hot.start_key[1] + Hot.end_key[1]) \div 2>>

Plan(startKey, endKey, source, destination) ==
  [start_key |-> startKey, end_key |-> endKey,
   source_instance |-> source, destination_instance |-> destination]

\* C1: in a two-server fleet that passes the imbalance test and whose hot
\* range does not fit the least-loaded server, the call returns exactly
\* (start_key, mid, most, least) followed by (mid, end_key, most, most).
C1_TwoServerSplit ==
  (/\ pc = "returned"
   /\ Len(before) = 2
   /\ ThresholdPassed
   /\ Hot # NoRange
   /\ ExceedsLeast)
  => plans = <<Plan(Hot.start_key, MidOfHot, Most.instance_id, Least.instance_id),
               Plan(MidOfHot, Hot.end_key, Most.instance_id, Most.instance_id)>>

C1_Witness ==
  /\ pc = "returned"
  /\ Len(before) = 2
  /\ ThresholdPassed
  /\ Hot # NoRange
  /\ ExceedsLeast
  /\ Len(plans) = 2
  /\ Len(Hot.start_key) = 2

\* C2: a call returns at most two plans, and two returned plans both have the
\* most-loaded server as their source.
C2_AtMostTwoSameSource ==
  pc = "returned" =>
    /\ Len(plans) <= 2
    /\ Len(plans) = 2 =>
         /\ plans[1].source_instance = plans[2].source_instance
         /\ plans[1].source_instance = Most.instance_id

C2_Witness ==
  /\ pc = "returned"
  /\ Len(before) = 3
  /\ Len(plans) = 2
  /\ plans[2].destination_instance # plans[2].source_instance

\* The server of the fleet given to the call that has this instance_id.
ServerById(id) == before[FindServer(before, id, 1)]

\* The range, or half-range, that the i-th returned plan assigns.
Assigned(i) ==
  IF Len(plans) = 1 THEN Hot ELSE splitKeyRange(Hot, before, weights)[i]

\* C3: every returned plan fits its destination: the destination's current
\* processing load plus the assigned (half-)range's does not exceed
\* max_cpu_capacity, and likewise for memory.
C3_DestinationCapacityRespected ==
  pc = "returned" =>
    \A i \in 1..Len(plans) :
      LET d == ServerById(plans[i].destination_instance)
      IN /\ d.total_request_processing_load + Assigned(i).request_processing_load
              <= d.max_cpu_capacity
         /\ d.total_memory_usage + Assigned(i).memory_usage <= d.max_memory_capacity

\* C4: a single plan (MOVE-WHOLE) is returned only when the hot range fits
\* the least-loaded server in CPU and in memory.
C4_MoveOnlyWhenFits ==
  (pc = "returned" /\ Len(plans) = 1) =>
    /\ ProjectedCpu <= Least.max_cpu_capacity
    /\ ProjectedMemory <= Least.max_memory_capacity

C4_Witness ==
  /\ pc = "returned"
  /\ Len(plans) = 1
  /\ ProjectedCpu = Least.max_cpu_capacity
  /\ Most.total_request_processing_load + Hot.request_processing_load
       > Most.max_cpu_capacity

\* C5: a call leaves the caller's server list as it was: the same servers at
\* the same positions with the same fields.
C5_CallerListUnchanged == pc = "returned" => servers = before

\* Difference between the greatest and the smallest server score of a fleet.
Spread(list) ==
  LET scores == {Score(list[i]) : i \in 1..Len(list)}
  IN (CHOOSE x \in scores : \A y \in scores : y <= x)
     - (CHOOSE x \in scores : \A y \in scores : x <= y)

\* C6: once a MOVE-WHOLE plan has been applied to the fleet, the difference
\* between the greatest and the smallest score is strictly smaller than it
\* was when the call was made.
C6_MoveShrinksSpread ==
  (pc = "idle" /\ Len(plans) = 1) => Spread(servers) < Spread(before)

\* C7: on a split of a range with start_key <= end_key the midpoint lies in
\* [start_key, end_key], the two plans meet at it and span the range.
C7_MidpointInsideRange ==
  (pc = "returned" /\ Len(plans) = 2 /\ KeyLeq(Hot.start_key, Hot.end_key)) =>
    /\ plans[1].start_key = Hot.start_key
    /\ plans[1].end_key = plans[2].start_key
    /\ plans[2].end_key = Hot.end_key
    /\ KeyLeq(Hot.start_key, plans[1].end_key)
    /\ KeyLeq(plans[1].end_key, Hot.end_key)

AllSameScore ==
  \A i, j \in 1..Len(before) : Score(before[i]) = Score(before[j])

\* C8: on a fleet whose servers all have the same score (the one-server and
\* the empty fleet included) the call raises nothing and returns no plan.
C8_EqualScoresNoPlans ==
  (pc \in {"returned", "threw"} /\ AllSameScore) =>
    (pc = "returned" /\ plans = <<>>)

C8_Witness ==
  /\ pc = "returned"
  /\ plans = <<>>
  /\ AllSameScore
  /\ Len(before) = 3
  /\ Score(before[1]) > 0
  /\ before[1].total_request_processing_load # before[2].total_request_processing_load

\* The fleet does not pass the threshold test: it is empty, or the score
\* difference is at most a tenth of the greatest score.
AtOrBelowThreshold(list) ==
  \/ list = <<>>
  \/ 10 * (calculateCombinedLoad(mostLoadedServer(list, weights), weights)
           - calculateCombinedLoad(leastLoadedServer(list, weights), weights))
       <= calculateCombinedLoad(mostLoadedServer(list, weights), weights)

\* C9: plans are returned only if score(most) - score(least) is strictly more
\* than a tenth of score(most); from a fleet at or below that threshold every
\* further call returns no plan, raises nothing and leaves the fleet as it is.
C9_ThresholdStrict ==
  [][/\ (pc' = "returned" /\ plans' # <<>>) => ThresholdPassed'
     /\ AtOrBelowThreshold(servers) =>
          (plans' = <<>> /\ servers' = servers /\ pc' # "threw")]_vars

C9_Witness ==
  /\ pc = "returned"
  /\ plans = <<>>
  /\ before # <<>>
  /\ Score(Most) > 0
  /\ 10 * (Score(Most) - Score(Least)) = Score(Most)

\* C10: when the threshold test passes and the most-loaded server has a key
\* range, at least one plan is returned: the split test and the move test are
\* exact complements.
C10_NoNoOpBranch ==
  (pc \in {"returned", "threw"} /\ ThresholdPassed /\ Len(Most.key_ranges) >= 1) =>
    /\ pc = "returned"
    /\ Len(plans) >= 1
    /\ shouldSplitKeyRange(Hot, Least) <=> ~canMoveKeyRange(Hot, Least)

C10_Witness ==
  /\ pc = "returned"
  /\ ThresholdPassed
  /\ Len(plans) = 1
  /\ ProjectedMemory = Least.max_memory_capacity
  /\ ProjectedCpu < Least.max_cpu_capacity

\* C11: when the threshold test passes and one projection of the hot range on
\* the least-loaded server equals its capacity exactly while the other is
\* within capacity, the call moves the whole range: exactly one plan.
C11_EqualityMoves ==
  (/\ pc \in {"returned", "threw"}
   /\ ThresholdPassed
   /\ Hot # NoRange
   /\ \/ (ProjectedCpu = Least.max_cpu_capacity
          /\ ProjectedMemory <= Least.max_memory_capacity)
      \/ (ProjectedMemory = Least.max_memory_capacity
          /\ ProjectedCpu <= Least.max_cpu_capacity))
  => (pc = "returned" /\ Len(plans) = 1)

C11_Witness ==
  /\ pc = "returned"
  /\ Len(before) = 3
  /\ ThresholdPassed
  /\ Hot # NoRange
  /\ ProjectedCpu = Least.max_cpu_capacity
  /\ ProjectedMemory < Least.max_memory_capacity
  /\ Len(plans) = 1

\* C12: when the whole hot range fits the least-loaded server the call returns
\* exactly one plan, with the hot range's own keys, from the most-loaded to
\* the least-loaded server, and these are two different servers.
C12_MoveWholePlan ==
  (/\ pc \in {"returned", "threw"}
   /\ ThresholdPassed
   /\ Hot # NoRange
   /\ ~ExceedsLeast)
  => /\ pc = "returned"
     /\ plans = <<Plan(Hot.start_key, Hot.end_key,
                       Most.instance_id, Least.instance_id)>>
     /\ plans[1].source_instance # plans[1].destination_instance

C12_Witness ==
  /\ pc = "returned"
  /\ ThresholdPassed
  /\ Hot # NoRange
  /\ ~ExceedsLeast
  /\ Len(plans) = 1
  /\ Len(Most.key_ranges) = 2
  /\ Hot = Most.key_ranges[2]

\* Values of weights.migrationPenalty (in tenths) to compare a call against.
Penalties == {0, 10, 50, 200}

\* C13: the result of a call does not depend on weights.migrationPenalty: the
\* same fleet with any other penalty gives the same outcome and plan list.
C13_PenaltyIrrelevant ==
  pc \in {"returned", "threw"} =>
    \A p \in Penalties :
      LET r == slicerLoadBalancer(before, [weights EXCEPT !.migrationPenalty = p])
      IN /\ r.outcome = pc
         /\ pc = "returned" => r.migrationPlans = plans

C13_Witness ==
  /\ pc = "returned"
  /\ Len(plans) = 2
  /\ weights.migrationPenalty = 50
  /\ slicerLoadBalancer(before, [weights EXCEPT !.migrationPenalty = 0]).migrationPlans
       = plans

\* C14: when the threshold test passes and the most-loaded server lists no
\* key range, the call raises an error and returns nothing.
C14_EmptyRangesRaise ==
  (/\ pc \in {"returned", "threw"}
   /\ ThresholdPassed
   /\ Len(Most.key_ranges) = 0)
  => pc = "threw"

C14_Witness ==
  /\ pc = "threw"
  /\ ThresholdPassed
  /\ Len(Most.key_ranges) = 0
  /\ Len(before) = 2

\* Position of the first server, in input order, whose score is the greatest
\* (the smallest) of the fleet given to the call.
FirstMaxIndex ==
  CHOOSE i \in 1..Len(before) :
    /\ \A j \in 1..Len(before) : Score(before[j]) <= Score(before[i])
    /\ \A j \in 1..(i - 1) : Score(before[j]) < Score(before[i])

FirstMinIndex ==
  CHOOSE i \in 1..Len(before) :
    /\ \A j \in 1..Len(before) : Score(before[j]) >= Score(before[i])
    /\ \A j \in 1..(i - 1) : Score(before[j]) > Score(before[i])

\* C15: the most-loaded server is the first server in input order with the
\* greatest score and the least-loaded one the first with the smallest score;
\* the first returned plan goes from the former to the latter.
C15_FirstEncounteredWins ==
  (pc \in {"returned", "threw"} /\ before # <<>>) =>
    /\ Most = before[FirstMaxIndex]
    /\ Least = before[FirstMinIndex]
    /\ (pc = "returned" /\ plans # <<>>) =>
         /\ plans[1].source_instance = before[FirstMaxIndex].instance_id
         /\ plans[1].destination_instance = before[FirstMinIndex].instance_id

C15_Witness ==
  /\ pc = "returned"
  /\ plans # <<>>
  /\ Len(before) = 3
  /\ \E j \in 1..3 : j > FirstMaxIndex /\ Score(before[j]) = Score(Most)
  /\ plans[1].source_instance = before[FirstMaxIndex].instance_id

RangeScore(keyRange) == calculateKeyRangeLoad(keyRange, weights)

\* The first range, in key_ranges order, of the most-loaded server whose
\* range score is the greatest on that server.
Candidate ==
  LET ranges == before[FirstMaxIndex].key_ranges
      k == CHOOSE i \in 1..Len(ranges) :
             /\ \A j \in 1..Len(ranges) : RangeScore(ranges[j]) <= RangeScore(ranges[i])
             /\ \A j \in 1..(i - 1) : RangeScore(ranges[j]) < RangeScore(ranges[i])
  IN ranges[k]

MidOfCandidate == <<(Candidate.start_key[1] + Candidate.end_key[1]) \div 2>>

\* C16: the hot range is the first range of the most-loaded server with the
\* greatest range score, and every returned plan is made of its keys and the
\* midpoint only; no other range of the fleet is named by a plan.
C16_SoleCandidate ==
  (pc = "returned" /\ plans # <<>>) =>
    /\ Hot = Candidate
    /\ \A k \in 1..Len(plans) :
         /\ plans[k].start_key \in {Candidate.start_key, MidOfCandidate}
         /\ plans[k].end_key \in {Candidate.end_key, MidOfCandidate}
         /\ \A i \in 1..Len(before) : \A j \in 1..Len(before[i].key_ranges) :
              before[i].key_ranges[j] # Candidate =>
                ~(/\ plans[k].start_key = before[i].key_ranges[j].start_key
                  /\ plans[k].end_key = before[i].key_ranges[j].end_key)

C16_Witness ==
  /\ pc = "returned"
  /\ plans # <<>>
  /\ Len(Most.key_ranges) >= 2
  /\ RangeScore(Most.key_ranges[1]) = RangeScore(Most.key_ranges[2])
  /\ plans[1].start_key = Most.key_ranges[1].start_key

\* Position of the i-th server of the fleet given to the call in the list of
\* all servers sorted ascending by score, ties kept in input order.
Rank(i) ==
  1 + Cardinality({j \in 1..Len(before) :
                     \/ Score(before[j]) < Score(before[i])
                     \/ (Score(before[j]) = Score(before[i]) /\ j < i)})

AtRank(k) == before[CHOOSE i \in 1..Len(before) : Rank(i) = k]

\* C17: on a split in a fleet of two or more servers the first plan goes to
\* the first and the second plan to the second server of the list sorted
\* ascending by score with ties in input order (the order the call leaves the
\* caller's array in); the first destination is the least-loaded server.
C17_SplitDestinations ==
  (pc = "returned" /\ Len(plans) = 2 /\ Len(before) >= 2) =>
    /\ plans[1].destination_instance = AtRank(1).instance_id
    /\ plans[2].destination_instance = AtRank(2).instance_id
    /\ plans[1].destination_instance = Least.instance_id
    /\ \A k \in 1..Len(before) : servers[k] = AtRank(k)

C17_Witness ==
  /\ pc = "returned"
  /\ Len(plans) = 2
  /\ Len(before) = 3
  /\ Score(AtRank(1)) = Score(AtRank(2))
  /\ plans[2].destination_instance = AtRank(2).instance_id

\* The second destination of a split can be the source itself.
C17_SelfDestination ==
  /\ pc = "returned"
  /\ Len(plans) = 2
  /\ Len(before) = 3
  /\ plans[2].destination_instance = plans[2].source_instance

\* Fleets of the caller loop stay consistent and a call on them returns.
LoopConsistent ==
  \A i \in 1..Len(servers) :
    LET t == SumLoads(servers[i].key_ranges) IN
    /\ servers[i].total_request_processing_load = t.request_processing_load
    /\ servers[i].total_memory_usage = t.memory_usage
    /\ servers[i].total_storage_utilization = t.storage_utilization
    /\ servers[i].total_data_access_frequency = t.data_access_frequency
    /\ servers[i].max_cpu_capacity = LoopCapacity.max_cpu_capacity
    /\ servers[i].max_memory_capacity = LoopCapacity.max_memory_capacity

LoopNeverThrows ==
  /\ LoopConsistent
  /\ slicerLoadBalancer(servers, weights).outcome = "returned"
  /\ Len(plans) <= 1

\* The engine returns no plans on the caller's current fleet.
Quiescent == slicerLoadBalancer(servers, weights).migrationPlans = <<>>

\* C18: the caller loop on a consistent fleet with ample capacities
\* eventually reaches a fleet on which the engine returns no plans, and
\* stays there.
C18_LoopSettles == <>[]Quiescent

\* A fleet of the loop from which the same fleet comes back after two rounds:
\* one server owns a single loaded range, the other owns nothing.
C18_PingPong ==
  /\ pc = "returned"
  /\ Len(servers) = 2
  /\ Len(plans) = 1
  /\ Len(servers[1].key_ranges) + Len(servers[2].key_ranges) = 1

\* C19: on every server list the fixed-weight variant returns (or raises)
\* exactly as the parameterized variant called with cpuWeight 1,
\* storageWeight 0.5, accessFrequencyWeight 0.2 and memoryWeight 0.3: the
\* same plans in the same order, and the same reordering of the caller's
\* array.
C19_VariantsAgree ==
  (pc \in {"returned", "threw"} /\ weights = FixedWeights) =>
    LET r == slicerLoadBalancerFixed(before)
    IN /\ r.outcome = pc
       /\ pc = "returned" => (r.migrationPlans = plans /\ r.servers = servers)

C19_Witness ==
  /\ pc = "returned"
  /\ weights = FixedWeights
  /\ Len(before) = 3
  /\ Len(plans) = 2
  /\ slicerLoadBalancerFixed(before).migrationPlans = plans
  /\ Most.total_memory_usage > 0
====
